---- MODULE Spec2Model ----
(***************************************************************************)
(* Rally arcade simulation core of SolanaGrandPrix: track geometry,        *)
(* checkpoint/stage progression, the fixed-timestep game loop, ghost       *)
(* recording, and the localStorage persistence layer.                      *)
(*                                                                         *)
(* Units.  Lengths are counted in half pixels, so that the car's bounding  *)
(* radius max(CAR_WIDTH, CAR_HEIGHT) / 2 = 17.5 px is the integer 35.      *)
(* Time is counted in ticks of 1/240 s: FIXED_TIMESTEP = 1/60 s is 4 ticks *)
(* and MAX_FRAME_TIME = 0.25 s is 60 ticks.  Date.now() and                *)
(* performance.now() read the same clock, the variable now.  stageTime,    *)
(* (now - startTime) / 1000 in the source, is kept in ticks: the division  *)
(* is strictly increasing and maps 0 to 0, which is all the code's         *)
(* comparisons and truthiness tests depend on.                             *)
(* Angles are counted in milliradians, velocities and speeds in tenths of   *)
(* a pixel per second, and dimensionless factors (inputs, grip, friction,  *)
(* sines) in thousandths; a product with a scaled factor is divided by the *)
(* scale, rounding toward zero.  The server's clock (server.js) counts     *)
(* minutes.                                                                *)
(***************************************************************************)
EXTENDS Integers, Sequences, FiniteSets, TLC

VARIABLES
    track,        \* CheckpointManager.track / Game.currentTrack
    now,          \* the wall clock (Date.now(), performance.now())
    cm,           \* the CheckpointManager instance
    lastPos,      \* history: car position handed to the last CheckpointManager.update
    op,           \* history: the operation that produced the current state
    game,         \* the Game instance's own fields
    pc,           \* where the gameLoop callback stands: "idle", "loop", "update"
    keys,         \* InputManager.keys (the codes of the keys held down)
    car,          \* Game.car
    ghostCar,     \* Game.ghostCar
    storage,      \* localStorage, per track name
    hist,         \* history: physics steps run, frame time offered
    col,          \* a boundary-collision query and the query repeated at its result
    inserted,     \* history: per track, how often each time was added to the leaderboard
    replay,       \* a ghost trace played twice on one AICar, and what it showed
    srv           \* server.js: the sessions map, the rate-limit map, the last response

stageVars == <<track, now, cm, lastPos, op>>
gameVars == <<game, pc, keys, car, ghostCar, storage, hist>>
otherVars == <<col, inserted, replay, srv>>
vars == <<track, now, cm, lastPos, op, game, pc, keys, car, ghostCar, storage, hist,
          col, inserted, replay, srv>>

-----------------------------------------------------------------------------
(* Bounds of the model *)

\* the clock stops advancing here (SpecStage)
MaxNow == 4

\* the clock stops advancing here (Spec)
MaxGameClock == 17

\* the clock stops advancing here (SpecLoop)
MaxLoopClock == 70

\* the longest frame delta offered to the game loop (SpecLoop), in ticks
MaxDelta == 65

\* the longest vector of the model, in half pixels or tenths of a pixel
\* per second
SqrtMax == 4000

\* the clock up to which the car is driven (SpecCar): three physics steps
MaxCarClock == 13

\* the number of AICar.update calls of one replay (SpecGhost)
MaxReplayLen == 4

\* session tokens issued (SpecSession)
MaxTokens == 2

\* steps of the server's clock (SpecSession, SpecRateLimit)
MaxTicks == 2

\* login and signup attempts made (SpecRateLimit)
MaxAttempts == 6

\* the clock stops advancing here (SpecAttempts): eight physics steps, two
\* attempts of four
MaxAttemptClock == 33

\* the clock stops advancing here (SpecChains)
MaxChainClock == 9

\* calls of Game.start (SpecChains)
MaxStarts == 3

\* leaderboard times run from 1 to LbMaxTime (SpecLeaderboard)
LbMaxTime == 2

\* leaderboard entries added to one track (SpecLeaderboard)
MaxInserts == 11

-----------------------------------------------------------------------------
(* Program constants *)

\* JavaScript null for a numeric field (startTime, bestStageTime, ...)
NULL == -1

\* car.js CAR_CONFIG, in pixels
CAR_WIDTH == 20
CAR_HEIGHT == 35

\* checkpoints.js: the start/finish rectangle starts 20 px above the line ...
LINE_HALF_DEPTH == 40
\* ... and is 40 px deep
LINE_DEPTH == 80

\* game.js: 60 Hz physics, in ticks of 1/240 s
FIXED_TIMESTEP == 4
\* game.js: 0.25 s, in ticks of 1/240 s
MAX_FRAME_TIME == 60
\* one second, in ticks
TICKS_PER_SECOND == 240
\* aiCar.js: frames of a ghost trace per second
FRAME_RATE == 60
\* the ghost's cursor counts quarters of a frame (one per tick)
FRAME_QUARTERS == 4

\* track.js: the safety margin of a collision push, 15 px
PUSH_MARGIN == 30
\* track.js: minDist when nothing was hit
Infinity == 1000000
\* storage.js: the leaderboard keeps the top 10
LEADERBOARD_SIZE == 10

\* the scale of dimensionless factors
MILLI == 1000
\* Math.PI, Math.PI / 2 and Math.PI / 4 in milliradians
PI == 3142
HALF_PI == 1571
QUARTER_PI == 785

\* car.js CAR_CONFIG
MAX_ACCELERATION == 12000
MAX_BRAKE_FORCE == 18000
FRICTION == 850
MAX_STEER_ANGLE == 600
STEER_SPEED == 8
STEER_RESPONSE == 150
MAX_TRACTION == 2500
LATERAL_FRICTION == 950
SLIP_THRESHOLD == 120
DRIFT_FACTOR == 350
GRIP_RECOVERY == 850
CORNER_STIFFNESS == 800
LATERAL_VELOCITY_DAMPING == 920
HANDBRAKE_FORCE == 500
HANDBRAKE_SLIP == 900
HANDBRAKE_LATERAL_REDUCTION == 400
\* car.js: below 5 px/s the slip angle is 0
SLIP_MIN_SPEED == 50
\* car.js: the speed floor of the steering term, 10 px/s
STEER_MIN_SPEED == 100

\* server.js: 30 days, 15 minutes, 5 attempts, and the hourly timers
SESSION_EXPIRY_MS == 43200
RATE_LIMIT_WINDOW_MS == 15
RATE_LIMIT_MAX_ATTEMPTS == 5
CLEANUP_INTERVAL_MS == 60

\* JavaScript null for an object field
Null == [null |-> TRUE]
\* a missing line
NoLine == Null

Max(a, b) == IF a > b THEN a ELSE b
Min(a, b) == IF a < b THEN a ELSE b

\* JavaScript truthiness of a number-or-null: null and 0 are falsy
Truthy(v) == v # NULL /\ v # 0

-----------------------------------------------------------------------------
(* engine/math.js *)

Vec2(x, y) == [x |-> x, y |-> y]

clamp(value, min, max) == Min(Max(value, min), max)

circleRectIntersect(center, radius, rect) ==
    LET closestX == clamp(center.x, rect.x, rect.x + rect.width)
        closestY == clamp(center.y, rect.y, rect.y + rect.height)
        dx == center.x - closestX
        dy == center.y - closestY
    IN  (dx * dx + dy * dy) < (radius * radius)

\* Vec2 methods.  Coordinates are whole half pixels; a length is the square
\* root rounded down, which is exact for axis-parallel vectors, and a
\* comparison of a length with a whole number is exact in every case.
add(a, b) == Vec2(a.x + b.x, a.y + b.y)
sub(a, b) == Vec2(a.x - b.x, a.y - b.y)
dot(a, b) == a.x * b.x + a.y * b.y
lengthSq(a) == a.x * a.x + a.y * a.y

\* division rounding toward zero
DivTrunc(a, b) == IF a >= 0 THEN a \div b ELSE -((-a) \div b)

\* Math.sqrt, rounded down: the largest r in lo..hi with r * r <= n
RECURSIVE SqrtIn(_, _, _)
SqrtIn(n, lo, hi) ==
    IF lo >= hi THEN lo
    ELSE LET mid == (lo + hi + 1) \div 2
         IN  IF mid * mid <= n THEN SqrtIn(n, mid, hi) ELSE SqrtIn(n, lo, mid - 1)

Sqrt(n) == SqrtIn(n, 0, SqrtMax)

length(a) == Sqrt(lengthSq(a))
distance(a, b) == length(sub(a, b))

\* a.add(segment.mul(t)) with t = clamp(toPoint.dot(segment) / segmentLenSq, 0, 1)
ClosestOnSegment(p, a, b) ==
    LET segment == sub(b, a)
        segmentLenSq == lengthSq(segment)
        num == clamp(dot(sub(p, a), segment), 0, segmentLenSq)
    IN  Vec2(a.x + DivTrunc(segment.x * num, segmentLenSq),
             a.y + DivTrunc(segment.y * num, segmentLenSq))

\* origin.add(dir.normalize().mul(dist)); normalize() of the zero vector is
\* the zero vector
PushAlong(origin, dir, dist) ==
    LET len == length(dir)
    IN  IF len = 0 THEN origin
        ELSE Vec2(origin.x + DivTrunc(dir.x * dist, len),
                  origin.y + DivTrunc(dir.y * dist, len))

\* a segment shorter than 0.01 px (lengthSq < 0.0001) has length 0 on the grid
pointToSegmentDistance(p, a, b) ==
    IF lengthSq(sub(b, a)) = 0 THEN distance(p, a)
    ELSE distance(p, ClosestOnSegment(p, a, b))

-----------------------------------------------------------------------------
(* world/track.js, world/tracks.js *)

\* Track constructor: finishLine stays null when the data has none
TrackOf(name, startLine, finishLine, checkpoints, outer, inner) ==
    [name |-> name,
     startLine |-> startLine,
     finishLine |-> finishLine,
     checkpoints |-> checkpoints,
     checkpointRects |-> [i \in DOMAIN checkpoints |->
                            [x |-> checkpoints[i].x, y |-> checkpoints[i].y,
                             width |-> checkpoints[i].width,
                             height |-> checkpoints[i].height]],
     outerBoundary |-> outer,
     innerBoundary |-> inner]

Line(x, y, width) == [x |-> x, y |-> y, angle |-> 0, width |-> width]
Rect(x, y, w, h) == [x |-> x, y |-> y, width |-> w, height |-> h]

\* A 400 x 300 px block with a 200 x 100 px island; the stage runs along the
\* top corridor.  Like the shipped tracks, each polygon repeats its first
\* vertex at the end.
OuterPoly == <<Vec2(0, 0), Vec2(800, 0), Vec2(800, 600), Vec2(0, 600), Vec2(0, 0)>>
InnerPoly == <<Vec2(200, 200), Vec2(600, 200), Vec2(600, 400), Vec2(200, 400), Vec2(200, 200)>>

StageCheckpoints == <<Rect(300, 60, 120, 120), Rect(380, 60, 120, 120)>>

\* a point-to-point stage: start line, two overlapping checkpoints, finish line
StageTrack ==
    TrackOf("Stage", Line(100, 100, 200), Line(700, 100, 160),
            StageCheckpoints, OuterPoly, InnerPoly)

\* the same stage as the track editor exports it: no finishLine
NoFinishTrack ==
    TrackOf("NoFinish", Line(100, 100, 200), NoLine,
            StageCheckpoints, OuterPoly, InnerPoly)

\* no checkpoints, finish line drawn over the start line
LapTrack ==
    TrackOf("Lap", Line(100, 100, 200), Line(100, 100, 200),
            <<>>, OuterPoly, InnerPoly)

TRACKS == {StageTrack, NoFinishTrack, LapTrack}

\* a start line with a heading
LineAt(x, y, angle, width) == [x |-> x, y |-> y, angle |-> angle, width |-> width]

\* like 'Mountain Descent': the start line faces down the screen (pi/2) and
\* lies on a dirt patch
DescentTrack ==
    TrackOf("Descent", LineAt(100, 100, HALF_PI, 200), Line(700, 500, 160),
            StageCheckpoints, OuterPoly, InnerPoly)

\* Track.surfaces; a track without surface data has none
DirtPatch == <<Vec2(0, 0), Vec2(200, 0), Vec2(200, 200), Vec2(0, 200)>>
Surfaces(trk) ==
    IF trk.name = "Descent" THEN <<[type |-> "dirt", poly |-> DirtPatch]>> ELSE <<>>

\* one edge test of the ray cast: (yi > y) # (yj > y) and
\* x < (xj - xi) * (y - yi) / (yj - yi) + xi, the division cleared
EdgeCrossed(point, pi, pj) ==
    /\ (pi.y > point.y) # (pj.y > point.y)
    /\ IF pj.y - pi.y > 0
       THEN (point.x - pi.x) * (pj.y - pi.y) < (pj.x - pi.x) * (point.y - pi.y)
       ELSE (point.x - pi.x) * (pj.y - pi.y) > (pj.x - pi.x) * (point.y - pi.y)

\* Track.isPointInPolygon: inside when an odd number of edges is crossed
isPointInPolygon(point, polygon) ==
    IF Len(polygon) < 3 THEN FALSE
    ELSE Cardinality({i \in DOMAIN polygon :
             EdgeCrossed(point, polygon[i],
                         polygon[IF i = 1 THEN Len(polygon) ELSE i - 1])}) % 2 = 1

\* Track.getSurfaceType: the first surface polygon holding the position
getSurfaceType(trk, position) ==
    LET surfaces == Surfaces(trk)
        holding == {i \in DOMAIN surfaces : isPointInPolygon(position, surfaces[i].poly)}
    IN  IF holding = {} THEN "asphalt"
        ELSE surfaces[CHOOSE i \in holding : \A j \in holding : i <= j].type

checkCheckpoint_any(trk, position, radius, checkpointIndex) ==
    \E i \in DOMAIN trk.checkpointRects :
        /\ i - 1 >= checkpointIndex
        /\ circleRectIntersect(position, radius, trk.checkpointRects[i])

\* Track.checkCheckpoint; checkpointIndex is 0-based as in the source
checkCheckpoint(trk, position, radius, checkpointIndex) ==
    IF checkpointIndex < 0 \/ checkpointIndex >= Len(trk.checkpointRects)
    THEN FALSE
    ELSE circleRectIntersect(position, radius, trk.checkpointRects[checkpointIndex + 1])

\* vertex i and its successor, (i + 1) % length in the source
EdgeA(poly, i) == poly[i]
EdgeB(poly, i) == poly[(i % Len(poly)) + 1]

\* the edges the loop stops at: closer than radius and not of zero length
HitEdges(poly, position, radius) ==
    {i \in DOMAIN poly :
        /\ pointToSegmentDistance(position, EdgeA(poly, i), EdgeB(poly, i)) < radius
        /\ lengthSq(sub(EdgeB(poly, i), EdgeA(poly, i))) # 0}

FirstHit(poly, position, radius) ==
    CHOOSE i \in HitEdges(poly, position, radius) :
        \A j \in HitEdges(poly, position, radius) : i <= j

\* lines 46-73 (inward = TRUE) and 85-111 (inward = FALSE): the position the
\* circle is moved to for edge i
Resolve(poly, i, position, radius, inward) ==
    LET a == EdgeA(poly, i)
        b == EdgeB(poly, i)
        segment == sub(b, a)
        closestOnSegment == ClosestOnSegment(position, a, b)
        toCar == sub(position, closestOnSegment)
        distToCar == length(toCar)
        pushNormal ==
            IF distToCar = 0
            THEN (IF inward THEN Vec2(-segment.y, segment.x) ELSE Vec2(segment.y, -segment.x))
            ELSE (IF inward THEN toCar ELSE Vec2(-toCar.x, -toCar.y))
        pushDistance == radius - distToCar + PUSH_MARGIN
    IN  PushAlong(closestOnSegment, pushNormal, pushDistance)

\* Track.checkCollision(position, radius)
checkCollision(trk, position, radius) ==
    IF HitEdges(trk.outerBoundary, position, radius) # {}
    THEN LET i == FirstHit(trk.outerBoundary, position, radius)
         IN  [hit |-> TRUE,
              newPosition |-> Resolve(trk.outerBoundary, i, position, radius, TRUE),
              distance |-> pointToSegmentDistance(position, EdgeA(trk.outerBoundary, i),
                                                  EdgeB(trk.outerBoundary, i))]
    ELSE IF HitEdges(trk.innerBoundary, position, radius) # {}
    THEN LET i == FirstHit(trk.innerBoundary, position, radius)
         IN  [hit |-> TRUE,
              newPosition |-> Resolve(trk.innerBoundary, i, position, radius, FALSE),
              distance |-> pointToSegmentDistance(position, EdgeA(trk.innerBoundary, i),
                                                  EdgeB(trk.innerBoundary, i))]
    ELSE [hit |-> FALSE, newPosition |-> position, distance |-> Infinity]

-----------------------------------------------------------------------------
(* entities/car.js *)

getBoundingCircle(position) ==
    [center |-> position, radius |-> Max(CAR_WIDTH, CAR_HEIGHT)]

\* car positions offered to the progression: on the start line, between the
\* start and the checkpoints (one of them exactly one radius from the start
\* rectangle), in checkpoint 0 only, in both checkpoints, in checkpoint 1
\* only, on the finish line
Positions ==
    {Vec2(100, 100), Vec2(235, 100), Vec2(260, 100), Vec2(340, 100),
     Vec2(400, 100), Vec2(480, 100), Vec2(700, 100)}

-----------------------------------------------------------------------------
(* world/checkpoints.js *)

NewCheckpointManager ==
    [currentCheckpoint |-> 0,
     startTime |-> NULL,
     stageTime |-> 0,
     bestStageTime |-> NULL,
     lastCheckpointTime |-> NULL,
     hasPassedStartLine |-> FALSE,
     stageComplete |-> FALSE]

reset_clearBest(m) ==
    [m EXCEPT !.currentCheckpoint = 0,
              !.startTime = NULL,
              !.stageTime = 0,
              !.bestStageTime = NULL,
              !.lastCheckpointTime = NULL,
              !.hasPassedStartLine = FALSE,
              !.stageComplete = FALSE]

\* CheckpointManager.reset
reset(m) ==
    [m EXCEPT !.currentCheckpoint = 0,
              !.startTime = NULL,
              !.stageTime = 0,
              !.lastCheckpointTime = NULL,
              !.hasPassedStartLine = FALSE,
              !.stageComplete = FALSE]

start(m, t) == [m EXCEPT !.startTime = t]

LineRect(line) ==
    [x |-> line.x - line.width \div 2,
     y |-> line.y - LINE_HALF_DEPTH,
     width |-> line.width,
     height |-> LINE_DEPTH]

checkPassedStartLine(trk, carPosition, carRadius) ==
    IF trk.startLine = NoLine THEN FALSE
    ELSE circleRectIntersect(carPosition, carRadius, LineRect(trk.startLine))

checkPassedFinishLine(trk, carPosition, carRadius) ==
    IF trk.finishLine = NoLine THEN FALSE
    ELSE circleRectIntersect(carPosition, carRadius, LineRect(trk.finishLine))

completeStage(m, finishTime) ==
    IF m.stageComplete THEN m
    ELSE LET stageTime == m.stageTime
             wasNewBest == ~Truthy(m.bestStageTime) \/ stageTime < m.bestStageTime
         IN  [m EXCEPT !.stageComplete = TRUE,
                       !.bestStageTime = IF wasNewBest THEN stageTime ELSE @]

UpdateStart_retrigger(m, trk, carPosition, carRadius, t) ==
    IF checkPassedStartLine(trk, carPosition, carRadius)
    THEN [m EXCEPT !.hasPassedStartLine = TRUE, !.startTime = t]
    ELSE m

\* update, lines 61-67: the start line is honoured once
UpdateStart(m, trk, carPosition, carRadius, t) ==
    IF ~m.hasPassedStartLine /\ checkPassedStartLine(trk, carPosition, carRadius)
    THEN [m EXCEPT !.hasPassedStartLine = TRUE, !.startTime = t]
    ELSE m

\* update, lines 71-74
UpdateStageTime(m, t) ==
    IF Truthy(m.startTime) THEN [m EXCEPT !.stageTime = t - m.startTime] ELSE m

UpdateCheckpoint_wrap(m, trk, carPosition, carRadius, t) ==
    IF Len(trk.checkpoints) > 0
       /\ checkCheckpoint(trk, carPosition, carRadius,
                          m.currentCheckpoint % Len(trk.checkpoints))
    THEN [m EXCEPT !.currentCheckpoint = @ + 1, !.lastCheckpointTime = t]
    ELSE m

\* update, lines 76-82
UpdateCheckpoint(m, trk, carPosition, carRadius, t) ==
    IF m.currentCheckpoint < Len(trk.checkpoints)
       /\ checkCheckpoint(trk, carPosition, carRadius, m.currentCheckpoint)
    THEN [m EXCEPT !.currentCheckpoint = @ + 1, !.lastCheckpointTime = t]
    ELSE m

UpdateFinish_early(m, trk, carPosition, carRadius, t) ==
    IF checkPassedFinishLine(trk, carPosition, carRadius)
    THEN completeStage(m, t)
    ELSE m

\* update, lines 84-89
UpdateFinish(m, trk, carPosition, carRadius, t) ==
    IF m.currentCheckpoint >= Len(trk.checkpoints)
       /\ checkPassedFinishLine(trk, carPosition, carRadius)
    THEN completeStage(m, t)
    ELSE m

CheckpointManager_update_unguarded(m, trk, carPosition, carRadius, t) ==
    LET m1 == UpdateStart(m, trk, carPosition, carRadius, t)
    IN  IF m1.hasPassedStartLine
        THEN UpdateFinish(
                 UpdateCheckpoint(UpdateStageTime(m1, t), trk, carPosition, carRadius, t),
                 trk, carPosition, carRadius, t)
        ELSE m1

\* CheckpointManager.update(carPosition, carRadius) at clock reading t
CheckpointManager_update(m, trk, carPosition, carRadius, t) ==
    IF m.stageComplete THEN m
    ELSE LET m1 == UpdateStart(m, trk, carPosition, carRadius, t)
         IN  IF m1.hasPassedStartLine /\ ~m1.stageComplete
             THEN UpdateFinish(
                      UpdateCheckpoint(UpdateStageTime(m1, t), trk, carPosition, carRadius, t),
                      trk, carPosition, carRadius, t)
             ELSE m1

-----------------------------------------------------------------------------
(* entities/car.js, entities/aiCar.js.  Car.update integrates floating-point
   physics; Car_update is that integration in fixed point (SpecCar).  In the
   specifications of the game loop the position a physics step leaves the
   car at is an input of the step. *)

\* sin and cos in thousandths (Bhaskara's rational approximation, exact at
\* the multiples of pi/2)
normalizeAngle(angle) ==
    LET RECURSIVE Down(_), Up(_)
        Down(a) == IF a > PI THEN Down(a - 2 * PI) ELSE a
        Up(a) == IF a < -PI THEN Up(a + 2 * PI) ELSE a
    IN  Up(Down(angle))

Sin(angle) ==
    LET a == normalizeAngle(angle)
        x == IF a < 0 THEN -a ELSE a
        p == x * (PI - x)
        v == (16 * p) \div ((5 * PI * PI - 4 * p) \div MILLI)
    IN  IF a < 0 THEN -v ELSE v

Cos(angle) == Sin(angle + HALF_PI)

\* Math.atan2(y, x) in milliradians
Atan2(y, x) ==
    LET ax == IF x < 0 THEN -x ELSE x
        ay == IF y < 0 THEN -y ELSE y
        unit(z) == (z * (QUARTER_PI + (273 * (MILLI - z)) \div MILLI)) \div MILLI
        base == IF ax = 0 /\ ay = 0 THEN 0
                ELSE IF ay <= ax THEN unit((ay * MILLI) \div ax)
                ELSE HALF_PI - unit((ax * MILLI) \div ay)
        upper == IF x >= 0 THEN base ELSE PI - base
    IN  IF y >= 0 THEN upper ELSE -upper

Abs(a) == IF a < 0 THEN -a ELSE a
Sign(a) == IF a > 0 THEN 1 ELSE IF a < 0 THEN -1 ELSE 0

\* a * f for a factor f in thousandths
Mul(a, f) == DivTrunc(a * f, MILLI)
\* Vec2.mul(s) for a factor s in thousandths
mul(v, f) == Vec2(Mul(v.x, f), Mul(v.y, f))
\* x * deltaTime, deltaTime in ticks
PerStep(x, deltaTime) == DivTrunc(x * deltaTime, TICKS_PER_SECOND)

\* Math.pow(r, SLIP_FACTOR) = r^2 * sqrt(r), r in thousandths
PowSlip(r) == Mul(Mul(r, r), Sqrt(r * MILLI))

SURFACE_GRIP(surfaceType) ==
    CASE surfaceType = "asphalt" -> 1000
      [] surfaceType = "dirt" -> 650
      [] surfaceType = "grass" -> 300

SURFACE_LATERAL(surfaceType) ==
    CASE surfaceType = "asphalt" -> 1000
      [] surfaceType = "dirt" -> 600
      [] surfaceType = "grass" -> 250

\* Car.constructor
NewCar(x, y, angle) ==
    [position |-> Vec2(x, y), angle |-> angle,
     velocity |-> Vec2(0, 0), angularVelocity |-> 0,
     speed |-> 0, slipAngle |-> 0, currentGrip |-> MAX_TRACTION,
     steerInput |-> 0, throttleInput |-> 0, brakeInput |-> 0, handbrakeInput |-> FALSE]

\* lines 95-106: the slip angle, from a speed above SlipSpeed(c) on
SlipSpeed_always(c) == c.speed >= 0

SlipSpeed(c) == c.speed > SLIP_MIN_SPEED

SlipOf(c) ==
    IF SlipSpeed(c)
    THEN LET velocityAngle == Atan2(c.velocity.y, c.velocity.x)
             slip == normalizeAngle(velocityAngle - c.angle)
         IN  IF Abs(slip) > HALF_PI THEN Sign(slip) * (PI - Abs(slip)) ELSE slip
    ELSE 0

\* Car.update, lines 85-88: the inputs, clamped
ClampInput(input) ==
    [steer |-> clamp(input.steer, -MILLI, MILLI),
     throttle |-> clamp(input.throttle, 0, MILLI),
     brake |-> clamp(input.brake, 0, MILLI),
     handbrake |-> input.handbrake]

\* lines 112-120: lateralGripMultiplier as the slip angle alone leaves it
SlipGrip(slip0) ==
    LET absSlip == Abs(slip0)
        slipRatio == Min(((absSlip - SLIP_THRESHOLD) * MILLI) \div QUARTER_PI, MILLI)
    IN  IF absSlip > SLIP_THRESHOLD
        THEN MILLI - Mul(PowSlip(slipRatio), 850)
        ELSE MILLI

\* lines 108-137: the slip angle, the lateral friction and the grip of the step
Traction(c, in, surfaceType, slip0, grip0) ==
    LET surfaceGrip == SURFACE_GRIP(surfaceType)
        baseLateralFriction == Mul(LATERAL_FRICTION, SURFACE_LATERAL(surfaceType))
        speedFactor == Min((c.speed * MILLI) \div MAX_TRACTION, MILLI)
        speedGripLoss == MILLI - Mul(Mul(DRIFT_FACTOR, speedFactor), MILLI - grip0)
        lateralGripMultiplier ==
            IF in.handbrake THEN Mul(grip0, HANDBRAKE_LATERAL_REDUCTION) ELSE grip0
        gripRecovery == IF in.throttle < 300 THEN GRIP_RECOVERY ELSE MILLI
    IN  [slipAngle |->
             IF in.handbrake
             THEN Mul(slip0, MILLI + Mul(HANDBRAKE_SLIP, MILLI - lateralGripMultiplier))
             ELSE slip0,
         effectiveLateralFriction |->
             Mul(Mul(baseLateralFriction, lateralGripMultiplier), speedGripLoss),
         currentGrip |->
             Mul(Mul(Mul(Mul(MAX_TRACTION, surfaceGrip), lateralGripMultiplier),
                     speedGripLoss), gripRecovery)]

\* lines 143-147: the angular velocity after steering
Steer(c, in, maxSpeed, deltaTime) ==
    LET steerReduction == Max(250, MILLI - Mul((c.speed * MILLI) \div maxSpeed, 750))
        targetSteerAngle ==
            Mul(Mul(Mul(in.steer, MAX_STEER_ANGLE), steerReduction), CORNER_STIFFNESS)
        currentSteerAngle ==
            PerStep(DivTrunc(c.angularVelocity * 10, Max(c.speed, STEER_MIN_SPEED)), deltaTime)
        steerDelta == normalizeAngle(targetSteerAngle - currentSteerAngle)
    IN  c.angularVelocity + PerStep(Mul(steerDelta * STEER_SPEED, STEER_RESPONSE), deltaTime)

\* lines 150-169: the velocity after throttle, brake and handbrake
Accelerate(c, in, forward, surfaceGrip, deltaTime) ==
    LET acceleration ==
            (IF in.throttle > 0
             THEN Mul(Mul(MAX_ACCELERATION, in.throttle), surfaceGrip) ELSE 0)
            - (IF in.brake > 0
               THEN Mul(Mul(MAX_BRAKE_FORCE, in.brake), surfaceGrip) * Sign(c.speed) ELSE 0)
            - (IF in.handbrake
               THEN Mul(Mul(MAX_BRAKE_FORCE, HANDBRAKE_FORCE), surfaceGrip) * Sign(c.speed)
               ELSE 0)
    IN  add(c.velocity, mul(forward, PerStep(acceleration, deltaTime)))

\* lines 172-183: longitudinal and lateral friction on the velocity v1
Friction(v1, forward, surfaceGrip, effectiveLateralFriction, deltaTime) ==
    LET longitudinalFriction == Mul(FRICTION, surfaceGrip)
        forwardVel == DivTrunc(dot(v1, forward), MILLI)
        forwardVec == mul(forward, forwardVel)
        lateralVel == sub(v1, forwardVec)
        v2 == sub(v1, mul(forwardVec, PerStep(longitudinalFriction, deltaTime)))
        lateralFriction == Mul(effectiveLateralFriction, LATERAL_VELOCITY_DAMPING)
    IN  sub(v2, mul(lateralVel, PerStep((MILLI - lateralFriction) * 10, deltaTime)))

\* lines 186-190: the speed, limited by the grip
LimitSpeed(v3, maxSpeed) ==
    LET speed3 == length(v3)
    IN  IF speed3 > maxSpeed
        THEN [velocity |-> Vec2(DivTrunc(v3.x * maxSpeed, speed3),
                                DivTrunc(v3.y * maxSpeed, speed3)),
              speed |-> maxSpeed]
        ELSE [velocity |-> v3, speed |-> speed3]

\* lines 193-203: position, rotation and the decay of the angular velocity
Integrate(c, in, deltaTime, traction, angularVelocity, limited) ==
    LET \* tenths of a pixel per second over ticks, to half pixels
        position ==
            Vec2(c.position.x + DivTrunc(limited.velocity.x * deltaTime, 5 * TICKS_PER_SECOND),
                 c.position.y + DivTrunc(limited.velocity.y * deltaTime, 5 * TICKS_PER_SECOND))
        slipRotationFactor == MILLI + Mul(Abs(traction.slipAngle), 300)
        angle == normalizeAngle(c.angle + Mul(PerStep(angularVelocity, deltaTime),
                                              slipRotationFactor))
        steerDecay == IF Abs(in.steer) > 100 THEN 980 ELSE 940
    IN  [position |-> position, angle |-> angle,
         velocity |-> limited.velocity, angularVelocity |-> Mul(angularVelocity, steerDecay),
         speed |-> limited.speed, slipAngle |-> traction.slipAngle,
         currentGrip |-> traction.currentGrip,
         steerInput |-> in.steer, throttleInput |-> in.throttle,
         brakeInput |-> in.brake, handbrakeInput |-> in.handbrake]

\* lines 137-203 under the traction of the step; maxSpeed is currentGrip
UpdateWithTraction(c, in, deltaTime, surfaceGrip, forward, traction) ==
    Integrate(c, in, deltaTime, traction,
              Steer(c, in, traction.currentGrip, deltaTime),
              LimitSpeed(Friction(Accelerate(c, in, forward, surfaceGrip, deltaTime),
                                  forward, surfaceGrip,
                                  traction.effectiveLateralFriction, deltaTime),
                         traction.currentGrip))

\* lines 91-203 on a surface, at slip angle slip0
UpdateOnSurface(c, in, deltaTime, surfaceType, slip0) ==
    UpdateWithTraction(c, in, deltaTime, SURFACE_GRIP(surfaceType),
                       Vec2(Cos(c.angle), Sin(c.angle)),
                       Traction(c, in, surfaceType, slip0, SlipGrip(slip0)))

\* Car.update(input, deltaTime, track); tire marks are presentation
Car_update(c, input, deltaTime, trk) ==
    UpdateOnSurface(c, ClampInput(input), deltaTime,
                    getSurfaceType(trk, c.position), SlipOf(c))

resetToCheckpoint_poseOnly(c, checkpointPosition, checkpointAngle) ==
    [c EXCEPT !.position = checkpointPosition, !.angle = checkpointAngle]

\* Car.resetToCheckpoint
resetToCheckpoint(c, checkpointPosition, checkpointAngle) ==
    [c EXCEPT !.position = checkpointPosition, !.angle = checkpointAngle,
              !.velocity = Vec2(0, 0), !.angularVelocity = 0,
              !.speed = 0, !.slipAngle = 0]

\* one recorded sample (Game.update, lines 381-388)
Frame(x, y, angle, speed, slipAngle, timestamp) ==
    [x |-> x, y |-> y, angle |-> angle, speed |-> speed,
     slipAngle |-> slipAngle, timestamp |-> timestamp]

\* AICar.constructor; a null ghostData is the empty sequence.  currentFrame
\* is counted in quarters of a frame, so that frameRate * deltaTime is the
\* whole number deltaTime * FRAME_RATE * FRAME_QUARTERS / TICKS_PER_SECOND
NewAICar(x, y, angle) ==
    [position |-> Vec2(x, y), angle |-> angle, speed |-> 0, slipAngle |-> 0,
     ghostData |-> <<>>, currentFrame |-> 0, isActive |-> FALSE]

loadGhostData_keepCursor(g, ghostData) ==
    [g EXCEPT !.ghostData = ghostData,
              !.isActive = Len(ghostData) > 0]

\* AICar.loadGhostData
loadGhostData(g, ghostData) ==
    [g EXCEPT !.ghostData = ghostData,
              !.currentFrame = 0,
              !.isActive = Len(ghostData) > 0]

\* ghostData[currentFrame]: an array has elements at whole indices only
HasFrame(g) ==
    /\ g.currentFrame % FRAME_QUARTERS = 0
    /\ g.currentFrame \div FRAME_QUARTERS < Len(g.ghostData)

FrameAt(g) == g.ghostData[g.currentFrame \div FRAME_QUARTERS + 1]

AICar_update_loop(g, deltaTime) ==
    IF g.currentFrame >= Len(g.ghostData) * FRAME_QUARTERS
    THEN [g EXCEPT !.currentFrame = 0, !.isActive = Len(g.ghostData) > 0]
    ELSE LET shown == IF HasFrame(g)
                      THEN [g EXCEPT !.position = Vec2(FrameAt(g).x, FrameAt(g).y),
                                     !.angle = FrameAt(g).angle,
                                     !.speed = FrameAt(g).speed,
                                     !.slipAngle = FrameAt(g).slipAngle]
                      ELSE g
         IN  [shown EXCEPT !.currentFrame =
                  g.currentFrame
                    + (FRAME_RATE * deltaTime * FRAME_QUARTERS) \div TICKS_PER_SECOND]

\* AICar.update(deltaTime)
AICar_update(g, deltaTime) ==
    IF ~g.isActive \/ g.currentFrame >= Len(g.ghostData) * FRAME_QUARTERS
    THEN [g EXCEPT !.isActive = FALSE]
    ELSE LET shown == IF HasFrame(g)
                      THEN [g EXCEPT !.position = Vec2(FrameAt(g).x, FrameAt(g).y),
                                     !.angle = FrameAt(g).angle,
                                     !.speed = FrameAt(g).speed,
                                     !.slipAngle = FrameAt(g).slipAngle]
                      ELSE g
             cursor == g.currentFrame
                         + (FRAME_RATE * deltaTime * FRAME_QUARTERS) \div TICKS_PER_SECOND
         IN  [shown EXCEPT !.currentFrame = cursor,
                           !.isActive = cursor < Len(g.ghostData) * FRAME_QUARTERS]

-----------------------------------------------------------------------------
(* engine/storage.js: localStorage, one best time, ghost trace and
   leaderboard per track name.  A missing key is NULL (best) or the empty
   sequence (ghost, leaderboard). *)

TrackNames == {t.name : t \in TRACKS}

getTrack(name) == CHOOSE t \in TRACKS : t.name = name

EmptyStorage ==
    [best |-> [n \in TrackNames |-> NULL],
     ghost |-> [n \in TrackNames |-> <<>>],
     leaderboard |-> [n \in TrackNames |-> <<>>]]

saveBestLap(st, trackName, time) == [st EXCEPT !.best[trackName] = time]
getBestLap(st, trackName) == st.best[trackName]
saveGhostData(st, trackName, ghostData) == [st EXCEPT !.ghost[trackName] = ghostData]
getGhostData(st, trackName) == st.ghost[trackName]
getLeaderboard(st, trackName) == st.leaderboard[trackName]

qualifiesForLeaderboard(st, trackName, time) ==
    LET leaderboard == getLeaderboard(st, trackName)
    IN  IF Len(leaderboard) < 10 THEN TRUE
        ELSE time < leaderboard[Len(leaderboard)].time

\* Array.prototype.sort((a, b) => a.time - b.time) is stable: each entry goes
\* behind the entries whose time is not greater
RECURSIVE SortByTime(_)
SortByTime(entries) ==
    IF entries = <<>> THEN <<>>
    ELSE LET sorted == SortByTime(SubSeq(entries, 1, Len(entries) - 1))
             e == entries[Len(entries)]
             k == Cardinality({i \in DOMAIN sorted : sorted[i].time <= e.time})
         IN  SubSeq(sorted, 1, k) \o <<e>> \o SubSeq(sorted, k + 1, Len(sorted))

\* Array.prototype.slice(0, n)
Slice(entries, n) == SubSeq(entries, 1, Min(n, Len(entries)))

addLeaderboardEntry_sliceFirst(st, trackName, name, time, date) ==
    LET pushed == Append(getLeaderboard(st, trackName),
                         [name |-> name, time |-> time, date |-> date])
    IN  [st EXCEPT !.leaderboard[trackName] = SortByTime(Slice(pushed, LEADERBOARD_SIZE))]

\* StorageManager.addLeaderboardEntry(trackName, name, time) at Date.now() = date
addLeaderboardEntry(st, trackName, name, time, date) ==
    LET pushed == Append(getLeaderboard(st, trackName),
                         [name |-> name, time |-> time, date |-> date])
    IN  [st EXCEPT !.leaderboard[trackName] = Slice(SortByTime(pushed), LEADERBOARD_SIZE)]

\* what an earlier session may have left behind for the stage track
PriorGhost == <<Frame(100, 100, 0, 0, 0, 1), Frame(700, 100, 0, 0, 0, 1)>>
PriorStorage ==
    [EmptyStorage EXCEPT !.best["Stage"] = 3, !.ghost["Stage"] = PriorGhost]

-----------------------------------------------------------------------------
(* engine/game.js.  Camera, audio, HUD and particles are presentation and
   are left out. *)

NewGame ==
    [isRunning |-> FALSE,
     isPaused |-> FALSE,
     isTimeTrialMode |-> FALSE,
     ghostData |-> <<>>,
     recordingGhost |-> FALSE,
     lastTime |-> 0,
     accumulator |-> 0,
     stageCompletedShown |-> FALSE,   \* undefined until first set
     nameModal |-> Null]              \* LeaderboardManager's pending name entry

NoHistory == [updates |-> 0, elapsed |-> 0, overlong |-> FALSE, ragged |-> FALSE]

\* no collision query, no leaderboard entry
LbTimes == 1..LbMaxTime
NoQuery == [phase |-> "none"]
NoInserts == [n \in TrackNames |-> [t \in LbTimes |-> 0]]
NoReplay == [round |-> 0]
NoServer == [up |-> FALSE]
OtherParked ==
    /\ col = NoQuery
    /\ inserted = NoInserts
    /\ replay = NoReplay
    /\ srv = NoServer

\* the Game part of a state in which no Game is driven
GameParked ==
    /\ game = NewGame
    /\ pc = "idle"
    /\ keys = {}
    /\ car = Null
    /\ ghostCar = Null
    /\ storage = EmptyStorage
    /\ hist = NoHistory
    /\ OtherParked

GameInit ==
    /\ track = Null
    /\ now = 1
    /\ cm = Null
    /\ lastPos = Vec2(100, 100)
    /\ op = "new"
    /\ game = NewGame
    /\ pc = "idle"
    /\ keys = {}
    /\ car = Null
    /\ ghostCar = Null
    /\ storage \in {EmptyStorage, PriorStorage}
    /\ hist = NoHistory
    /\ OtherParked

\* loadTrack: the best time and the ghost go to the objects of the previous
\* session, when there are any
LoadTrack(trackName, timeTrial, ghostEnabled) ==
    LET bestTime == getBestLap(storage, trackName)
        ghost == getGhostData(storage, trackName)
    IN  [track |-> getTrack(trackName),
         cm |-> IF cm # Null THEN [cm EXCEPT !.bestStageTime = bestTime] ELSE cm,
         ghostCar |-> IF ghostEnabled /\ timeTrial /\ Len(ghost) > 0 /\ ghostCar # Null
                      THEN loadGhostData(ghostCar, ghost)
                      ELSE ghostCar]

\* start(trackName, isTimeTrialMode): loadTrack, initGame, and the first
\* gameLoop call, whose delta is 0 and which finds less than one step in the
\* accumulator
StartBody(trackName, timeTrial, ghostEnabled) ==
    /\ pc = "idle"
    /\ ~game.isRunning \/ game.isPaused
    /\ LET loaded == LoadTrack(trackName, timeTrial, ghostEnabled)
           startLine == loaded.track.startLine
       IN  /\ track' = loaded.track
           /\ car' = NewCar(startLine.x, startLine.y, startLine.angle)
           /\ ghostCar' = NewAICar(startLine.x, startLine.y, startLine.angle)
           /\ cm' = start(NewCheckpointManager, now)
           /\ game' = [game EXCEPT !.isTimeTrialMode = timeTrial,
                                   !.ghostData = <<>>,
                                   !.recordingGhost = timeTrial /\ ghostEnabled,
                                   !.isRunning = TRUE,
                                   !.isPaused = FALSE,
                                   !.lastTime = now]
    /\ op' = "start"
    /\ UNCHANGED <<now, lastPos, pc, keys, storage>>
    /\ UNCHANGED otherVars

Start(trackName, timeTrial, ghostEnabled) ==
    /\ StartBody(trackName, timeTrial, ghostEnabled)
    /\ UNCHANGED hist

pause(g) == IF ~g.isRunning THEN g ELSE [g EXCEPT !.isPaused = TRUE]

resume(g) == IF ~g.isRunning \/ ~g.isPaused THEN g ELSE [g EXCEPT !.isPaused = FALSE]

\* stop; nothing cancels the animation-frame request that is pending
stop(g) == [g EXCEPT !.isRunning = FALSE, !.isPaused = FALSE]

\* the on-screen menu button
MenuPause ==
    /\ pc = "idle"
    /\ game.isRunning /\ ~game.isPaused
    /\ game' = pause(game)
    /\ op' = "pause"
    /\ UNCHANGED <<track, now, cm, lastPos, pc, keys, car, ghostCar, storage, hist>>
    /\ UNCHANGED otherVars

\* the pause menu's Resume button
MenuResume ==
    /\ pc = "idle"
    /\ game.isPaused
    /\ game' = resume(game)
    /\ op' = "resume"
    /\ UNCHANGED <<track, now, cm, lastPos, pc, keys, car, ghostCar, storage, hist>>
    /\ UNCHANGED otherVars

\* keydown / keyup between two frames
KeyDown(code) ==
    /\ pc = "idle"
    /\ code \notin keys
    /\ keys' = keys \cup {code}
    /\ op' = "key"
    /\ UNCHANGED <<track, now, cm, lastPos, game, pc, car, ghostCar, storage, hist>>
    /\ UNCHANGED otherVars

KeyUp(code) ==
    /\ pc = "idle"
    /\ code \in keys
    /\ keys' = keys \ {code}
    /\ op' = "key"
    /\ UNCHANGED <<track, now, cm, lastPos, game, pc, car, ghostCar, storage, hist>>
    /\ UNCHANGED otherVars

\* gameLoop, lines 309-328: d ticks after the previous frame
GameLoopBegin(d, maxClock) ==
    /\ pc = "idle"
    /\ game.isRunning
    /\ now + d <= maxClock
    /\ LET currentTime == now + d
           deltaTime == currentTime - game.lastTime
           clamped == Min(deltaTime, MAX_FRAME_TIME)
       IN  /\ now' = currentTime
           /\ game' = [game EXCEPT !.lastTime = currentTime,
                                   !.accumulator = IF game.isPaused THEN @ ELSE @ + clamped]
           /\ pc' = IF game.isPaused THEN "idle" ELSE "loop"
           /\ hist' = [hist EXCEPT !.elapsed = @ + deltaTime,
                                   !.overlong = @ \/ deltaTime > MAX_FRAME_TIME]
    /\ op' = "frame"
    /\ UNCHANGED <<track, cm, lastPos, keys, car, ghostCar, storage>>
    /\ UNCHANGED otherVars

LoopCond_strict(accumulator) == accumulator > FIXED_TIMESTEP

LoopCond_positive(accumulator) == accumulator > 0

\* gameLoop, line 329
LoopCond(accumulator) == accumulator >= FIXED_TIMESTEP

\* resetCar
resetCar ==
    LET startLine == track.startLine
    IN  [car |-> resetToCheckpoint(car, Vec2(startLine.x, startLine.y), startLine.angle),
         cm |-> start(reset(cm), now)]

\* update, lines 342-360: the reset and pause keys
UpdateInput ==
    /\ pc = "loop"
    /\ LoopCond(game.accumulator)
    /\ LET r == IF "KeyR" \in keys THEN resetCar ELSE [car |-> car, cm |-> cm]
       IN  /\ car' = r.car
           /\ cm' = r.cm
    /\ game' = IF "Escape" \in keys
               THEN (IF game.isPaused THEN resume(game) ELSE pause(game))
               ELSE game
    /\ hist' = [hist EXCEPT !.updates = @ + 1]
    /\ pc' = "update"
    /\ op' = "input"
    /\ UNCHANGED <<track, now, lastPos, keys, ghostCar, storage>>
    /\ UNCHANGED otherVars

RecordGhost_anyState(g, m, c) ==
    IF g.recordingGhost
    THEN [g EXCEPT !.ghostData =
              Append(@, Frame(c.position.x, c.position.y, c.angle, c.speed,
                              c.slipAngle, now))]
    ELSE g

\* update, lines 380-390
RecordGhost(g, m, c) ==
    IF g.recordingGhost /\ m.hasPassedStartLine /\ ~m.stageComplete
    THEN [g EXCEPT !.ghostData =
              Append(@, Frame(c.position.x, c.position.y, c.angle, c.speed,
                              c.slipAngle, now))]
    ELSE g

\* update, lines 392-417: [game, storage] after the completion handling
HandleCompletion(g, m, st) ==
    IF m.stageComplete /\ ~g.stageCompletedShown
    THEN LET isNewBest == ~Truthy(m.bestStageTime) \/ m.stageTime < m.bestStageTime
             st1 == saveBestLap(st, track.name, m.stageTime)
             saveGhost == g.recordingGhost /\ Len(g.ghostData) > 0
             st2 == IF saveGhost THEN saveGhostData(st1, track.name, g.ghostData) ELSE st1
             g1 == IF saveGhost THEN [g EXCEPT !.ghostData = <<>>] ELSE g
             g2 == IF g.isTimeTrialMode /\ qualifiesForLeaderboard(st2, track.name, m.stageTime)
                   THEN [g1 EXCEPT !.nameModal =
                             [trackName |-> track.name, lapTime |-> m.stageTime]]
                   ELSE g1
         IN  IF Truthy(m.stageTime) /\ isNewBest
             THEN [game |-> [g2 EXCEPT !.stageCompletedShown = TRUE], storage |-> st2]
             ELSE [game |-> [g EXCEPT !.stageCompletedShown = TRUE], storage |-> st]
    ELSE [game |-> g, storage |-> st]

\* update, lines 362-451, and the loop's accumulator -= FIXED_TIMESTEP:
\* the car ends the physics step at p
UpdatePhysics(p) ==
    /\ pc = "update"
    /\ LET c == [car EXCEPT !.position = p]
           bounds == getBoundingCircle(c.position)
           m == CheckpointManager_update(cm, track, bounds.center, bounds.radius, now)
           g1 == RecordGhost(game, m, c)
           done == HandleCompletion(g1, m, storage)
       IN  /\ car' = c
           /\ cm' = m
           /\ lastPos' = p
           /\ game' = [done.game EXCEPT !.accumulator = @ - FIXED_TIMESTEP]
           /\ storage' = done.storage
           /\ ghostCar' = IF ghostCar.isActive
                          THEN AICar_update(ghostCar, FIXED_TIMESTEP)
                          ELSE ghostCar
    /\ hist' = [hist EXCEPT !.ragged = @ \/ game.accumulator % FIXED_TIMESTEP # 0]
    /\ pc' = "loop"
    /\ op' = "update"
    /\ UNCHANGED <<track, now, keys>>
    /\ UNCHANGED otherVars

\* gameLoop, lines 334-339: render and requestAnimationFrame
GameLoopEnd ==
    /\ pc = "loop"
    /\ ~LoopCond(game.accumulator)
    /\ pc' = "idle"
    /\ op' = "render"
    /\ UNCHANGED <<track, now, cm, lastPos, game, keys, car, ghostCar, storage, hist>>
    /\ UNCHANGED otherVars

\* the tracks, frame deltas and car positions offered to a full session
GameTracks == {"Stage"}
GameDeltas == {0, 3, 5, 8}
KeyCodes == {"KeyR", "Escape"}

Next ==
    \/ \E n \in GameTracks, tt \in BOOLEAN, ge \in BOOLEAN : Start(n, tt, ge)
    \/ MenuPause
    \/ MenuResume
    \/ \E k \in KeyCodes : KeyDown(k)
    \/ \E k \in KeyCodes : KeyUp(k)
    \/ \E d \in GameDeltas : GameLoopBegin(d, MaxGameClock)
    \/ UpdateInput
    \/ \E p \in Positions : UpdatePhysics(p)
    \/ GameLoopEnd

Spec == GameInit /\ [][Next]_vars

\* SpecLoop: an unpaused session with no key held and the car parked on the
\* start line, under frame deltas of every length up to MaxDelta
LoopNext ==
    \/ Start("Stage", FALSE, FALSE)
    \/ \E d \in 0..MaxDelta : GameLoopBegin(d, MaxLoopClock)
    \/ UpdateInput
    \/ UpdatePhysics(Vec2(100, 100))
    \/ GameLoopEnd

SpecLoop == GameInit /\ [][LoopNext]_vars

-----------------------------------------------------------------------------
(* SpecAttempts: one time-trial session of one fixed step per frame, long
   enough for a stage to be completed, the car reset with R, and the stage
   completed again *)

AttemptPositions == {Vec2(100, 100), Vec2(400, 100), Vec2(700, 100)}

AttemptNext ==
    \/ Start("Stage", TRUE, FALSE)
    \/ KeyDown("KeyR")
    \/ KeyUp("KeyR")
    \/ GameLoopBegin(FIXED_TIMESTEP, MaxAttemptClock)
    \/ UpdateInput
    \/ \E p \in AttemptPositions : UpdatePhysics(p)
    \/ GameLoopEnd

SpecAttempts == GameInit /\ [][AttemptNext]_vars

-----------------------------------------------------------------------------
(* SpecChains: the gameLoop callbacks that requestAnimationFrame holds.
   gameLoop ends by requesting the next frame unless it found isRunning
   false on entry; hist.scheduled counts the requests pending.  The callbacks
   run one after the other, each as GameLoopBegin ... GameLoopEnd. *)

ChainHistory ==
    [updates |-> 0, elapsed |-> 0, overlong |-> FALSE, ragged |-> FALSE, scheduled |-> 0]

ChainInit ==
    /\ track = Null
    /\ now = 1
    /\ cm = Null
    /\ lastPos = Vec2(100, 100)
    /\ op = "new"
    /\ game = NewGame
    /\ pc = "idle"
    /\ keys = {}
    /\ car = Null
    /\ ghostCar = Null
    /\ storage = EmptyStorage
    /\ hist = ChainHistory
    /\ OtherParked

\* start from the main menu or the pause menu: its gameLoop call requests a
\* frame of its own
ChainStart(trackName) ==
    /\ hist.scheduled < MaxStarts
    /\ StartBody(trackName, FALSE, FALSE)
    /\ hist' = [hist EXCEPT !.scheduled = @ + 1]

ChainStop ==
    /\ pc = "idle"
    /\ game.isRunning
    /\ game' = stop(game)
    /\ op' = "stop"
    /\ UNCHANGED <<track, now, cm, lastPos, pc, keys, car, ghostCar, storage, hist>>
    /\ UNCHANGED otherVars

\* gameLoop, line 310: a callback that finds the game stopped requests no
\* further frame
ChainDrop ==
    /\ pc = "idle"
    /\ ~game.isRunning
    /\ hist.scheduled > 0
    /\ hist' = [hist EXCEPT !.scheduled = @ - 1]
    /\ op' = "drop"
    /\ UNCHANGED <<track, now, cm, lastPos, game, pc, keys, car, ghostCar, storage>>
    /\ UNCHANGED otherVars

ChainNext ==
    \/ ChainStart("Stage")
    \/ MenuPause
    \/ MenuResume
    \/ ChainStop
    \/ ChainDrop
    \/ \E d \in {0, FIXED_TIMESTEP} : GameLoopBegin(d, MaxChainClock)
    \/ UpdateInput
    \/ UpdatePhysics(Vec2(100, 100))
    \/ GameLoopEnd

SpecChains == ChainInit /\ [][ChainNext]_vars

-----------------------------------------------------------------------------
(* SpecStage: a CheckpointManager driven directly, with arbitrary car
   positions, resets and clock readings *)

StageInit ==
    /\ track \in TRACKS
    /\ now = 1
    /\ cm = NewCheckpointManager
    /\ lastPos = Vec2(100, 100)
    /\ op = "new"
    /\ GameParked

StageUpdate(p) ==
    /\ cm' = CheckpointManager_update(cm, track, getBoundingCircle(p).center,
                                      getBoundingCircle(p).radius, now)
    /\ lastPos' = p
    /\ op' = "update"
    /\ UNCHANGED <<track, now>>
    /\ UNCHANGED gameVars
    /\ UNCHANGED otherVars

StageReset ==
    /\ cm' = reset(cm)
    /\ op' = "reset"
    /\ UNCHANGED <<track, now, lastPos>>
    /\ UNCHANGED gameVars
    /\ UNCHANGED otherVars

StageStart ==
    /\ cm' = start(cm, now)
    /\ op' = "start"
    /\ UNCHANGED <<track, now, lastPos>>
    /\ UNCHANGED gameVars
    /\ UNCHANGED otherVars

StageTick ==
    /\ now < MaxNow
    /\ now' = now + 1
    /\ op' = "tick"
    /\ UNCHANGED <<track, cm, lastPos>>
    /\ UNCHANGED gameVars
    /\ UNCHANGED otherVars

StageNext ==
    \/ \E p \in Positions : StageUpdate(p)
    \/ StageReset
    \/ StageStart
    \/ StageTick

SpecStage == StageInit /\ [][StageNext]_vars

-----------------------------------------------------------------------------
(* SpecCollision: Track.checkCollision queried at a position, and queried
   again at the position it returned *)

\* query positions along the top wall and above the island, in half pixels,
\* and radii of 10, 15, 17.5 and 25 px
ColXs == {40, 100, 400, 700}
ColYs == {0, 10, 20, 30, 32, 34, 40, 100, 170, 180, 190, 200, 210}
ColRadii == {20, 30, 35, 50}

CollisionInit ==
    /\ track = StageTrack
    /\ now = 1
    /\ cm = NewCheckpointManager
    /\ lastPos = Vec2(100, 100)
    /\ op = "new"
    /\ GameParked

ColQuery(p, r) ==
    /\ col.phase = "none"
    /\ col' = [phase |-> "queried", position |-> p, radius |-> r,
               first |-> checkCollision(track, p, r)]
    /\ UNCHANGED <<stageVars, gameVars, inserted, replay, srv>>

ColRequery ==
    /\ col.phase = "queried"
    /\ col' = [phase |-> "requeried", position |-> col.position, radius |-> col.radius,
               first |-> col.first,
               second |-> checkCollision(track, col.first.newPosition, col.radius)]
    /\ UNCHANGED <<stageVars, gameVars, inserted, replay, srv>>

CollisionNext ==
    \/ \E x \in ColXs, y \in ColYs, r \in ColRadii : ColQuery(Vec2(x, y), r)
    \/ ColRequery

SpecCollision == CollisionInit /\ [][CollisionNext]_vars

-----------------------------------------------------------------------------
(* SpecLeaderboard: StorageManager.addLeaderboardEntry called in any order *)

LbNames == {"Player", "Lemon93"}
LbTracks == {"Stage"}

InsertCount(n) ==
    LET RECURSIVE Sum(_)
        Sum(t) == IF t = 0 THEN 0 ELSE inserted[n][t] + Sum(t - 1)
    IN  Sum(LbMaxTime)

LeaderboardInit ==
    /\ track = StageTrack
    /\ now = 1
    /\ cm = NewCheckpointManager
    /\ lastPos = Vec2(100, 100)
    /\ op = "new"
    /\ GameParked

LbAdd(trackName, name, time) ==
    /\ InsertCount(trackName) < MaxInserts
    /\ storage' = addLeaderboardEntry(storage, trackName, name, time, now)
    /\ inserted' = [inserted EXCEPT ![trackName][time] = @ + 1]
    /\ UNCHANGED <<stageVars, game, pc, keys, car, ghostCar, hist, col, replay, srv>>

LeaderboardNext ==
    \E n \in LbTracks, name \in LbNames, t \in LbTimes : LbAdd(n, name, t)

SpecLeaderboard == LeaderboardInit /\ [][LeaderboardNext]_vars

-----------------------------------------------------------------------------
(* SpecCar: a car driven by Car.update under every combination of full and
   zero inputs, and reset by Game.resetCar.  The car is picked up either on
   the start line, as Game.initGame creates it, or in the middle of a drift
   (steering builds up over more steps than are run here); hist keeps the
   car as it was before the last operation *)

CarTracks == {StageTrack, DescentTrack}
CarInputs ==
    [steer : {-MILLI, 0, MILLI}, throttle : {0, MILLI}, brake : {0, MILLI},
     handbrake : BOOLEAN]

\* a car sliding through the top corridor at 175 px/s, its velocity about
\* 30 degrees off its heading
DriftingCar ==
    LET c == [NewCar(400, 100, 500) EXCEPT !.velocity = Vec2(900, 1500),
                                           !.angularVelocity = 400,
                                           !.speed = length(Vec2(900, 1500))]
    IN  [c EXCEPT !.slipAngle = SlipOf(c)]

CarInit ==
    /\ track \in CarTracks
    /\ now = 1
    /\ cm = start(NewCheckpointManager, 1)
    /\ lastPos = Vec2(track.startLine.x, track.startLine.y)
    /\ op = "new"
    /\ game = NewGame
    /\ pc = "idle"
    /\ keys = {}
    /\ car \in {NewCar(track.startLine.x, track.startLine.y, track.startLine.angle),
                DriftingCar}
    /\ ghostCar = Null
    /\ storage = EmptyStorage
    /\ hist = [before |-> car]
    /\ OtherParked

CarUpdate(input) ==
    /\ now + FIXED_TIMESTEP <= MaxCarClock
    /\ now' = now + FIXED_TIMESTEP
    /\ car' = Car_update(car, input, FIXED_TIMESTEP, track)
    /\ hist' = [before |-> car]
    /\ op' = "carUpdate"
    /\ UNCHANGED <<track, cm, lastPos, game, pc, keys, ghostCar, storage>>
    /\ UNCHANGED otherVars

CarReset ==
    /\ car' = resetCar.car
    /\ cm' = resetCar.cm
    /\ hist' = [before |-> car]
    /\ op' = "reset"
    /\ UNCHANGED <<track, now, lastPos, game, pc, keys, ghostCar, storage>>
    /\ UNCHANGED otherVars

CarNext ==
    \/ \E input \in CarInputs : CarUpdate(input)
    \/ CarReset

SpecCar == CarInit /\ [][CarNext]_vars

-----------------------------------------------------------------------------
(* SpecGhost: one AICar is loaded with a trace and updated with deltas of
   any length (round 1), then loaded with the same trace again and updated
   with the same deltas (round 2) *)

GhostTraces ==
    {<<>>,
     <<Frame(100, 100, 0, 0, 0, 1), Frame(140, 100, 200, 800, 30, 5)>>,
     <<Frame(100, 100, 0, 0, 0, 1), Frame(140, 100, 200, 800, 30, 5),
       Frame(180, 104, 400, 1200, -50, 9)>>}

\* 1/120 s, 1/80 s, 1/60 s and 1/30 s
GhostDeltas == {2, 3, 4, 8}

\* what a renderer sees of the ghost
Shown(g) ==
    [position |-> g.position, angle |-> g.angle, speed |-> g.speed,
     slipAngle |-> g.slipAngle, isActive |-> g.isActive]

GhostInit ==
    /\ track = StageTrack
    /\ now = 1
    /\ cm = NewCheckpointManager
    /\ lastPos = Vec2(100, 100)
    /\ op = "new"
    /\ game = NewGame
    /\ pc = "idle"
    /\ keys = {}
    /\ car = Null
    /\ ghostCar = NewAICar(track.startLine.x, track.startLine.y, track.startLine.angle)
    /\ storage = EmptyStorage
    /\ hist = NoHistory
    /\ col = NoQuery
    /\ inserted = NoInserts
    /\ replay = NoReplay
    /\ srv = NoServer

GhostLoad(trace) ==
    /\ replay.round = 0
    /\ ghostCar' = loadGhostData(ghostCar, trace)
    /\ replay' = [round |-> 1, trace |-> trace, deltas |-> <<>>,
                  out1 |-> <<>>, out2 |-> <<>>,
                  last |-> [cursor |-> 0, active |-> FALSE]]
    /\ op' = "load"
    /\ UNCHANGED <<track, now, cm, lastPos, game, pc, keys, car, storage, hist,
                   col, inserted, srv>>

\* the cursor an update starts from, and whether the update gets past the
\* guard of line 21
Before(g) ==
    [cursor |-> g.currentFrame,
     active |-> g.isActive /\ g.currentFrame < Len(g.ghostData) * FRAME_QUARTERS]

GhostUpdate(deltaTime) ==
    /\ replay.round = 1
    /\ Len(replay.deltas) < MaxReplayLen
    /\ ghostCar' = AICar_update(ghostCar, deltaTime)
    /\ replay' = [replay EXCEPT !.deltas = Append(@, deltaTime),
                                !.out1 = Append(@, Shown(ghostCar')),
                                !.last = Before(ghostCar)]
    /\ op' = "ghostUpdate"
    /\ UNCHANGED <<track, now, cm, lastPos, game, pc, keys, car, storage, hist,
                   col, inserted, srv>>

GhostReload ==
    /\ replay.round = 1
    /\ replay.deltas # <<>>
    /\ ghostCar' = loadGhostData(ghostCar, replay.trace)
    /\ replay' = [replay EXCEPT !.round = 2, !.last = [cursor |-> 0, active |-> FALSE]]
    /\ op' = "load"
    /\ UNCHANGED <<track, now, cm, lastPos, game, pc, keys, car, storage, hist,
                   col, inserted, srv>>

GhostReplay ==
    /\ replay.round = 2
    /\ Len(replay.out2) < Len(replay.deltas)
    /\ ghostCar' = AICar_update(ghostCar, replay.deltas[Len(replay.out2) + 1])
    /\ replay' = [replay EXCEPT !.out2 = Append(@, Shown(ghostCar')),
                                !.last = Before(ghostCar)]
    /\ op' = "ghostUpdate"
    /\ UNCHANGED <<track, now, cm, lastPos, game, pc, keys, car, storage, hist,
                   col, inserted, srv>>

GhostNext ==
    \/ \E trace \in GhostTraces : GhostLoad(trace)
    \/ \E deltaTime \in GhostDeltas : GhostUpdate(deltaTime)
    \/ GhostReload
    \/ GhostReplay

SpecGhost == GhostInit /\ [][GhostNext]_vars

-----------------------------------------------------------------------------
(* server.js: sessions, rate limiting.  The user table is fixed: an admin
   and a driver. *)

Tokens == 1..MaxTokens
Users == {"admin", "driver"}
IsAdmin(userId) == userId = "admin"
IPs == {"10.0.0.1", "10.0.0.2"}

\* cleanupExpiredSessions() at Date.now() = t
cleanupExpiredSessions(sessions, t) ==
    [k \in DOMAIN sessions |->
        IF sessions[k] # Null /\ t - sessions[k].createdAt > SESSION_EXPIRY_MS
        THEN Null ELSE sessions[k]]

\* the rate-limit cleanup timer (lines 203-210) at Date.now() = t
cleanupRateLimits(rateLimitMap, t) ==
    [ip \in DOMAIN rateLimitMap |->
        IF rateLimitMap[ip] # Null /\ t > rateLimitMap[ip].resetTime
        THEN Null ELSE rateLimitMap[ip]]

\* createSession(userId): token is the fresh random token
createSession(sessions, token, userId, t) ==
    cleanupExpiredSessions(
        [sessions EXCEPT ![token] = [userId |-> userId, createdAt |-> t, lastAccess |-> t]],
        t)

\* a request's Bearer token: 0 when the header is missing
HasSession(sessions, token) == token \in DOMAIN sessions /\ sessions[token] # Null

\* requireAuth: the response status (200 for next()) and the sessions map
requireAuth(sessions, token, t) ==
    IF ~HasSession(sessions, token)
    THEN [status |-> 401, sessions |-> sessions]
    ELSE IF t - sessions[token].createdAt > SESSION_EXPIRY_MS
    THEN [status |-> 401, sessions |-> [sessions EXCEPT ![token] = Null]]
    ELSE [status |-> 200, sessions |-> [sessions EXCEPT ![token].lastAccess = t]]

\* requireAdmin
requireAdmin(sessions, token) ==
    IF ~HasSession(sessions, token)
    THEN [status |-> 401, sessions |-> sessions]
    ELSE IF sessions[token].userId \notin Users
    THEN [status |-> 401, sessions |-> sessions]
    ELSE IF ~IsAdmin(sessions[token].userId)
    THEN [status |-> 403, sessions |-> sessions]
    ELSE [status |-> 200, sessions |-> sessions]

\* checkRateLimit(ip) at Date.now() = t
checkRateLimit(rateLimitMap, ip, t) ==
    LET limit == rateLimitMap[ip]
    IN  IF limit = Null \/ t > limit.resetTime
        THEN [ok |-> TRUE,
              map |-> [rateLimitMap EXCEPT ![ip] =
                          [count |-> 1, resetTime |-> t + RATE_LIMIT_WINDOW_MS]]]
        ELSE IF limit.count >= RATE_LIMIT_MAX_ATTEMPTS
        THEN [ok |-> FALSE, map |-> rateLimitMap]
        ELSE [ok |-> TRUE, map |-> [rateLimitMap EXCEPT ![ip].count = @ + 1]]

\* rateLimitAuth: 200 stands for next()
rateLimitAuth(rateLimitMap, path, ip, t) ==
    IF path = "/api/login"
    THEN [status |-> 200, map |-> rateLimitMap]
    ELSE LET checked == checkRateLimit(rateLimitMap, ip, t)
         IN  [status |-> IF checked.ok THEN 200 ELSE 429, map |-> checked.map]

\* the middleware in front of a route: signup is registered with
\* rateLimitAuth (line 310), login without it (line 435)
Limiter(rateLimitMap, path, ip, t) ==
    IF path = "/api/signup"
    THEN rateLimitAuth(rateLimitMap, path, ip, t)
    ELSE [status |-> 200, map |-> rateLimitMap]

\* the last firing of an hourly timer in (from, to], or -1; the timers are
\* started with the server at time 0
LastTimer(from, to) ==
    LET last == (to \div CLEANUP_INTERVAL_MS) * CLEANUP_INTERVAL_MS
    IN  IF last > from THEN last ELSE -1

NewServer ==
    [up |-> TRUE,
     sessions |-> [k \in Tokens |-> Null],
     rateLimitMap |-> [ip \in IPs |-> Null],
     issued |-> 0,                               \* tokens handed out so far
     created |-> [k \in Tokens |-> NULL],        \* history: when token k was issued
     recent |-> [ip \in IPs |-> <<>>],           \* history: admitted attempts of the last window
     ticks |-> 0,
     attempts |-> 0,
     res |-> Null]                               \* the last response

ServerInit ==
    /\ track = Null
    /\ now = 0
    /\ cm = Null
    /\ lastPos = Vec2(100, 100)
    /\ op = "new"
    /\ game = NewGame
    /\ pc = "idle"
    /\ keys = {}
    /\ car = Null
    /\ ghostCar = Null
    /\ storage = EmptyStorage
    /\ hist = NoHistory
    /\ col = NoQuery
    /\ inserted = NoInserts
    /\ replay = NoReplay
    /\ srv = NewServer

serverFrame == <<track, cm, lastPos, game, pc, keys, car, ghostCar, storage, hist,
                 col, inserted, replay>>

\* time passes; the hourly timers that come due run
SrvTick(d) ==
    /\ srv.ticks < MaxTicks
    /\ now' = now + d
    /\ LET fired == LastTimer(now, now + d)
       IN  srv' = [srv EXCEPT
                     !.ticks = @ + 1,
                     !.sessions = IF fired >= 0 THEN cleanupExpiredSessions(@, fired) ELSE @,
                     !.rateLimitMap = IF fired >= 0 THEN cleanupRateLimits(@, fired) ELSE @]
    /\ op' = "tick"
    /\ UNCHANGED serverFrame

\* POST /api/login with valid credentials of userId, lines 435-500
SrvLogin(userId) ==
    /\ srv.issued < MaxTokens
    /\ LET token == srv.issued + 1
       IN  srv' = [srv EXCEPT
                     !.issued = token,
                     !.created[token] = now,
                     !.sessions = createSession(@, token, userId, now),
                     !.res = [handler |-> "login", token |-> token, status |-> 200,
                              at |-> now]]
    /\ op' = "login"
    /\ UNCHANGED <<now, serverFrame>>

\* a request to a route behind requireAuth (GET /api/me)
SrvRequireAuth(token) ==
    /\ LET r == requireAuth(srv.sessions, token, now)
       IN  srv' = [srv EXCEPT
                     !.sessions = r.sessions,
                     !.res = [handler |-> "requireAuth", token |-> token,
                              status |-> r.status, at |-> now]]
    /\ op' = "request"
    /\ UNCHANGED <<now, serverFrame>>

\* a request to a route behind requireAdmin (GET /api/admin/users)
SrvRequireAdmin(token) ==
    /\ LET r == requireAdmin(srv.sessions, token)
       IN  srv' = [srv EXCEPT
                     !.sessions = r.sessions,
                     !.res = [handler |-> "requireAdmin", token |-> token,
                              status |-> r.status, at |-> now]]
    /\ op' = "request"
    /\ UNCHANGED <<now, serverFrame>>

\* POST /api/logout, lines 559-570
SrvLogout(token) ==
    /\ LET r == requireAuth(srv.sessions, token, now)
       IN  srv' = [srv EXCEPT
                     !.sessions = IF r.status = 200
                                  THEN [r.sessions EXCEPT ![token] = Null]
                                  ELSE r.sessions,
                     !.res = [handler |-> "logout", token |-> token,
                              status |-> r.status, at |-> now]]
    /\ op' = "request"
    /\ UNCHANGED <<now, serverFrame>>

SessionDelays == {1, CLEANUP_INTERVAL_MS, SESSION_EXPIRY_MS - 1, SESSION_EXPIRY_MS}

SessionNext ==
    \/ \E d \in SessionDelays : SrvTick(d)
    \/ \E u \in Users : SrvLogin(u)
    \/ \E k \in 0..MaxTokens : SrvRequireAuth(k)
    \/ \E k \in 0..MaxTokens : SrvRequireAdmin(k)
    \/ \E k \in 0..MaxTokens : SrvLogout(k)

SpecSession == ServerInit /\ [][SessionNext]_vars

\* the admitted attempts less than a window old at time t
Recent(times, t) == SelectSeq(times, LAMBDA u : t - u < RATE_LIMIT_WINDOW_MS)

\* a login or signup attempt from ip: POST path
SrvAttempt(path, ip) ==
    /\ srv.attempts < MaxAttempts
    /\ LET r == Limiter(srv.rateLimitMap, path, ip, now)
       IN  srv' = [srv EXCEPT
                     !.attempts = @ + 1,
                     !.rateLimitMap = r.map,
                     !.recent[ip] = IF r.status = 200
                                    THEN Append(Recent(@, now), now)
                                    ELSE Recent(@, now),
                     !.res = [handler |-> path, ip |-> ip, status |-> r.status,
                              at |-> now]]
    /\ op' = "attempt"
    /\ UNCHANGED <<now, serverFrame>>

RateDelays == {1, RATE_LIMIT_WINDOW_MS, CLEANUP_INTERVAL_MS}
AuthPaths == {"/api/login", "/api/signup"}

RateLimitNext ==
    \/ \E d \in RateDelays : SrvTick(d)
    \/ \E path \in AuthPaths, ip \in IPs : SrvAttempt(path, ip)

SpecRateLimit == ServerInit /\ [][RateLimitNext]_vars

-----------------------------------------------------------------------------
(* Stage progression claims (SpecStage) *)

CarRadius == getBoundingCircle(Vec2(0, 0)).radius
NumCheckpoints == Len(track.checkpoints)
InCheckpoint(p, i) == circleRectIntersect(p, CarRadius, track.checkpointRects[i + 1])

\* C1: within one attempt (no reset in between) currentCheckpoint never
\* decreases, and it never exceeds the number of checkpoints of the track.
C1_CheckpointMonotonic ==
    /\ [](cm.currentCheckpoint <= NumCheckpoints)
    /\ [][op' # "reset" => cm'.currentCheckpoint >= cm.currentCheckpoint]_vars

\* every checkpoint is passed, and a later update finds the car inside the
\* last checkpoint again: the index stays at the count
C1_Witness ==
    /\ op = "update"
    /\ NumCheckpoints = 2
    /\ cm.currentCheckpoint = NumCheckpoints
    /\ ~cm.stageComplete
    /\ cm.lastCheckpointTime < now
    /\ InCheckpoint(lastPos, 1)

\* C2: an update advances currentCheckpoint by at most one, and only when the
\* car's circle intersects the rectangle at index currentCheckpoint; the stage
\* becomes complete only in an update after which currentCheckpoint equals the
\* checkpoint count and in which the car intersects the finish-line rectangle.
C2_AdvanceInOrder ==
    [][/\ (op' = "update" /\ cm'.currentCheckpoint # cm.currentCheckpoint) =>
              /\ cm'.currentCheckpoint = cm.currentCheckpoint + 1
              /\ cm.currentCheckpoint < NumCheckpoints
              /\ InCheckpoint(lastPos', cm.currentCheckpoint)
       /\ (~cm.stageComplete /\ cm'.stageComplete) =>
              /\ op' = "update"
              /\ cm'.currentCheckpoint = NumCheckpoints
              /\ track.finishLine # NoLine
              /\ circleRectIntersect(lastPos', CarRadius, LineRect(track.finishLine))
      ]_vars

\* an update with the car inside checkpoint 1 only, while checkpoint 0 is
\* still due: the index did not move
C2_Witness ==
    /\ op = "update"
    /\ NumCheckpoints = 2
    /\ cm.hasPassedStartLine
    /\ cm.currentCheckpoint = 0
    /\ InCheckpoint(lastPos, 1)
    /\ ~InCheckpoint(lastPos, 0)

\* C3: when an attempt completes with stage time t and previous best b, the
\* best becomes t if there is no best or t < b, and stays b if t >= b, for
\* every b >= 0 and t >= 0.
C3_BestTimeRule ==
    [][(~cm.stageComplete /\ cm'.stageComplete) =>
          cm'.bestStageTime =
              IF cm.bestStageTime = NULL \/ cm'.stageTime < cm.bestStageTime
              THEN cm'.stageTime
              ELSE cm.bestStageTime]_vars

\* C7: on a track without a finish line, once every checkpoint is passed,
\* an update with the car on the start-line rectangle completes the stage.
C7_StartLineActsAsFinish ==
    [][(/\ op' = "update"
        /\ track.finishLine = NoLine
        /\ cm.hasPassedStartLine
        /\ ~cm.stageComplete
        /\ cm.currentCheckpoint = NumCheckpoints
        /\ checkPassedStartLine(track, lastPos', CarRadius))
       => cm'.stageComplete]_vars

\* C8: once the attempt is Complete, an update leaves currentCheckpoint,
\* hasPassedStartLine, stageComplete, stageTime and bestStageTime unchanged.
C8_CompleteIsTerminal ==
    [][(cm.stageComplete /\ op' = "update") =>
          /\ cm'.currentCheckpoint = cm.currentCheckpoint
          /\ cm'.hasPassedStartLine = cm.hasPassedStartLine
          /\ cm'.stageComplete = cm.stageComplete
          /\ cm'.stageTime = cm.stageTime
          /\ cm'.bestStageTime = cm.bestStageTime]_vars

\* an update ran after the attempt completed, at a later clock reading and
\* with the car on the finish line again
C8_Witness ==
    /\ op = "update"
    /\ cm.stageComplete
    /\ Truthy(cm.startTime)
    /\ now > cm.startTime + cm.stageTime
    /\ checkPassedFinishLine(track, lastPos, CarRadius)

-----------------------------------------------------------------------------
(* Game loop claims *)

\* C4 as stated: whenever the frame deltas offered so far add up to N fixed
\* steps, whatever their lengths, Game.update has run exactly N times.
C4_StepsMatchTime ==
    (pc = "idle" /\ game.isRunning /\ hist.elapsed % FIXED_TIMESTEP = 0)
        => hist.updates = hist.elapsed \div FIXED_TIMESTEP

\* C4: in an unpaused session started with an empty accumulator, whenever
\* frame deltas none of which exceeds MAX_FRAME_TIME add up to N fixed steps,
\* Game.update has run exactly N times, however the time was chunked.
C4_StepsMatchTimeClamped ==
    (pc = "idle" /\ game.isRunning /\ ~hist.overlong
        /\ hist.elapsed % FIXED_TIMESTEP = 0)
        => hist.updates = hist.elapsed \div FIXED_TIMESTEP

\* five steps' worth of time has been offered in chunks that did not all
\* end on a step boundary, and five steps have run
C4_Witness ==
    /\ pc = "idle"
    /\ game.isRunning
    /\ ~hist.overlong
    /\ hist.ragged
    /\ hist.elapsed = 5 * FIXED_TIMESTEP
    /\ hist.updates = 5

\* C6: when a recording attempt completes with a new best stage time, the
\* physics step that detects it writes the time and the recorded trace to
\* storage under the track's name and leaves the in-memory trace empty.
C6_NewBestPersisted ==
    [][(/\ pc = "update"
        /\ game.recordingGhost
        /\ game.ghostData # <<>>
        /\ ~cm.stageComplete
        /\ cm'.stageComplete
        /\ cm'.stageTime > 0
        /\ (cm.bestStageTime = NULL \/ cm'.stageTime < cm.bestStageTime))
       => /\ getBestLap(storage', track.name) = cm'.stageTime
          /\ getGhostData(storage', track.name) = game.ghostData
          /\ game'.ghostData = <<>>]_vars

\* C9: while the session stays paused no physics step runs: the car, the
\* stage progress, the ghost trace and the accumulator keep the values they
\* had when the pause took effect.
C9_PausedFreezes ==
    [][(game.isPaused /\ game'.isPaused)
       => /\ car' = car
          /\ cm' = cm
          /\ game'.ghostData = game.ghostData
          /\ game'.accumulator = game.accumulator
          /\ hist'.updates = hist.updates]_vars

-----------------------------------------------------------------------------
(* Collision and leaderboard claims *)

\* C5: when checkCollision reports a hit, the same query at the returned
\* newPosition reports no hit.
C5_Idempotent ==
    (col.phase = "requeried" /\ col.first.hit) => ~col.second.hit

\* how many leaderboard entries of track n carry time t
LbCount(n, t) ==
    Cardinality({i \in DOMAIN storage.leaderboard[n] : storage.leaderboard[n][i].time = t})

\* how many times lower than t were added for track n
InsertedBelow(n, t) ==
    LET RECURSIVE Sum(_)
        Sum(u) == IF u = 0 THEN 0 ELSE inserted[n][u] + Sum(u - 1)
    IN  Sum(t - 1)

\* C10: a stored leaderboard holds at most 10 entries, in ascending order of
\* time, and they are the 10 lowest times added so far (all of them when
\* fewer than 10 were added).
C10_TopTenSorted ==
    \A n \in TrackNames :
        LET lb == storage.leaderboard[n]
        IN  /\ Len(lb) <= LEADERBOARD_SIZE
            /\ \A i, j \in DOMAIN lb : i < j => lb[i].time <= lb[j].time
            /\ \A t \in LbTimes :
                 LbCount(n, t) =
                     Min(inserted[n][t], Max(0, LEADERBOARD_SIZE - InsertedBelow(n, t)))

\* eleven entries were added, the slowest time first: the board is full and
\* the slowest time is no longer on it
C10_Witness ==
    /\ InsertCount("Stage") = 11
    /\ inserted["Stage"][LbMaxTime] = 1
    /\ Len(storage.leaderboard["Stage"]) = LEADERBOARD_SIZE
    /\ LbCount("Stage", LbMaxTime) = 0

-----------------------------------------------------------------------------
(* Car claims (SpecCar, Spec) *)

AtStartPose(c) ==
    /\ c.position = Vec2(track.startLine.x, track.startLine.y)
    /\ c.angle = track.startLine.angle

Stopped(c) ==
    /\ c.velocity = Vec2(0, 0)
    /\ c.angularVelocity = 0
    /\ c.speed = 0

C12_ResetToLastCheckpoint ==
    [][(op' = "input" /\ "KeyR" \in keys /\ cm.currentCheckpoint >= 1)
       => LET cp == track.checkpointRects[cm.currentCheckpoint]
          IN  /\ cp.x <= car'.position.x /\ car'.position.x <= cp.x + cp.width
              /\ cp.y <= car'.position.y /\ car'.position.y <= cp.y + cp.height]_vars

ZeroInput(c) ==
    /\ c.steerInput = 0
    /\ c.throttleInput = 0
    /\ c.brakeInput = 0
    /\ ~c.handbrakeInput

\* C14: on every track, a car at rest at the start-line position that gets
\* one Car.update with zero steer, throttle and brake and no handbrake has
\* slipAngle 0 and speed 0 after the step.
C14_RestStaysAtRest ==
    (/\ op = "carUpdate"
     /\ hist.before.position = Vec2(track.startLine.x, track.startLine.y)
     /\ Stopped(hist.before)
     /\ ZeroInput(car))
        => (car.slipAngle = 0 /\ car.speed = 0)

\* such a step was taken on the track whose start line does not face along
\* the x axis
C14_Witness ==
    /\ op = "carUpdate"
    /\ track.startLine.angle # 0
    /\ hist.before = NewCar(track.startLine.x, track.startLine.y, track.startLine.angle)
    /\ ZeroInput(car)
    /\ car.slipAngle = 0
    /\ car.speed = 0

-----------------------------------------------------------------------------
(* Ghost playback claims (SpecGhost) *)

\* C13: a trace replayed a second time (loadGhostData, then the same
\* sequence of update(deltaTime) calls) shows the same sequence of
\* positions, headings and active/inactive states as the first time.
C13_ReplayDeterministic ==
    replay.round = 2 => replay.out2 = SubSeq(replay.out1, 1, Len(replay.out2))

\* both rounds ran to the end of a trace of three frames: the ghost moved,
\* went inactive, and showed the same in both rounds
C13_Witness ==
    /\ replay.round = 2
    /\ Len(replay.trace) = 3
    /\ Len(replay.out2) = Len(replay.deltas)
    /\ Len(replay.out2) = MaxReplayLen
    /\ replay.out1[1].position # replay.out1[3].position
    /\ replay.out1[1].isActive
    /\ ~replay.out1[MaxReplayLen].isActive
    /\ replay.out2 = replay.out1

\* the whole indices next to a cursor: rounded down, to the nearest, or up
RoundedIndex(cursor, len) ==
    {i \in {cursor \div FRAME_QUARTERS,
            (cursor + FRAME_QUARTERS \div 2) \div FRAME_QUARTERS,
            (cursor + FRAME_QUARTERS - 1) \div FRAME_QUARTERS} : i < len}

ShowsFrame(g, frame) ==
    /\ g.position = Vec2(frame.x, frame.y)
    /\ g.angle = frame.angle
    /\ g.speed = frame.speed
    /\ g.slipAngle = frame.slipAngle

\* C20: every update of an active ghost leaves it showing the trace sample
\* at the rounded cursor index, also when the cursor is not a whole number.
C20_ShowsRoundedSample ==
    (replay.round # 0 /\ op = "ghostUpdate" /\ replay.last.active)
        => \E i \in RoundedIndex(replay.last.cursor, Len(replay.trace)) :
               ShowsFrame(ghostCar, replay.trace[i + 1])

-----------------------------------------------------------------------------
(* Session start claims (Spec) *)

\* C17: right after Game.start on a track with a persisted best time b, the
\* new attempt's stage progress reports bestStageTime = b.
C17_BestTimeCarried ==
    (op = "start" /\ getBestLap(storage, track.name) # NULL)
        => cm.bestStageTime = getBestLap(storage, track.name)

\* C18: right after Game.start of a time trial with the ghost option on, on
\* a track with a non-empty persisted ghost trace, the ghost car is active
\* and holds that trace.
C18_GhostLoadedOnStart ==
    (/\ op = "start"
     /\ game.isTimeTrialMode
     /\ game.recordingGhost
     /\ getGhostData(storage, track.name) # <<>>)
        => (/\ ghostCar.isActive
            /\ ghostCar.ghostData = getGhostData(storage, track.name))

-----------------------------------------------------------------------------
(* Inner-boundary claim (SpecCollision) *)

\* the side of the line through a and b on which p lies
SideOf(p, a, b) == Sign((b.x - a.x) * (p.y - a.y) - (b.y - a.y) * (p.x - a.x))

\* C19: a circle centred outside the inner polygon that hits an inner edge
\* (and no outer edge) gets a corrected position outside the inner polygon,
\* on the same side of the edge as before and farther from it.
C19_InnerPushedOutward ==
    (/\ col.phase # "none"
     /\ col.first.hit
     /\ HitEdges(track.outerBoundary, col.position, col.radius) = {}
     /\ ~isPointInPolygon(col.position, track.innerBoundary))
        => LET i == FirstHit(track.innerBoundary, col.position, col.radius)
               a == EdgeA(track.innerBoundary, i)
               b == EdgeB(track.innerBoundary, i)
           IN  /\ ~isPointInPolygon(col.first.newPosition, track.innerBoundary)
               /\ SideOf(col.first.newPosition, a, b) = SideOf(col.position, a, b)
               /\ pointToSegmentDistance(col.first.newPosition, a, b)
                    > pointToSegmentDistance(col.position, a, b)

-----------------------------------------------------------------------------
(* Server claims (SpecSession, SpecRateLimit) *)

\* C15: a request whose token's session was created more than 30 days
\* before it is answered 401 by requireAuth and by requireAdmin, whether or
\* not a cleanup has removed the session.
C15_ExpiredRejected ==
    (/\ srv.up
     /\ srv.res # Null
     /\ srv.res.handler \in {"requireAuth", "requireAdmin"}
     /\ srv.res.token \in 1..srv.issued
     /\ srv.res.at - srv.created[srv.res.token] > SESSION_EXPIRY_MS)
        => srv.res.status = 401

\* C16: for every client IP, at most 5 login or signup attempts are admitted
\* in any 15-minute period.
C16_AtMostFivePerWindow ==
    srv.up => \A ip \in IPs : Len(srv.recent[ip]) <= RATE_LIMIT_MAX_ATTEMPTS

-----------------------------------------------------------------------------
(* Ghost recording claims *)

\* C21: a physics step of Game.update appends exactly one sample (the car's
\* pose, speed and slip angle, stamped with the clock) to the ghost trace when
\* the session records and the attempt is in progress after the step's
\* progression update; in every other step it appends nothing (the trace
\* stays as it is or is emptied by the completion handling).
C21_OneSamplePerStep ==
    [][(pc = "update" /\ op' = "update")
       => IF game'.recordingGhost /\ cm'.hasPassedStartLine /\ ~cm'.stageComplete
          THEN game'.ghostData =
                   Append(game.ghostData,
                          Frame(car'.position.x, car'.position.y, car'.angle,
                                car'.speed, car'.slipAngle, now'))
          ELSE game'.ghostData \in {game.ghostData, <<>>}]_vars

\* two steps of an attempt in progress have been recorded, one sample each
C21_Witness ==
    /\ op = "update"
    /\ game.recordingGhost
    /\ cm.hasPassedStartLine /\ ~cm.stageComplete
    /\ hist.updates = 2
    /\ Len(game.ghostData) = 2

\* C22: between frames the in-memory ghost trace holds samples of the
\* current attempt only: none while the start line has not been passed, and
\* none stamped before the attempt's start.
C22_TraceOfCurrentAttempt ==
    (pc = "idle" /\ cm # Null)
        => \A i \in DOMAIN game.ghostData :
               /\ cm.hasPassedStartLine
               /\ game.ghostData[i].timestamp >= cm.startTime

-----------------------------------------------------------------------------
(* Stage progression claims, continued *)

\* C23: CheckpointManager.reset() leaves the machine NotStarted whatever
\* state it was in: checkpoint index 0, start line not passed, stage not
\* complete, stage time 0, timers cleared, and the best stage time as it was.
C23_ResetKeepsBest ==
    [][op' = "reset"
       => /\ cm'.currentCheckpoint = 0
          /\ ~cm'.hasPassedStartLine
          /\ ~cm'.stageComplete
          /\ cm'.stageTime = 0
          /\ cm'.startTime = NULL
          /\ cm'.lastCheckpointTime = NULL
          /\ cm'.bestStageTime = cm.bestStageTime]_vars

\* a reset after a stage was completed at the finish line: the best time is
\* still there
C23_Witness ==
    /\ op = "reset"
    /\ lastPos = Vec2(700, 100)
    /\ cm.bestStageTime # NULL
    /\ cm.currentCheckpoint = 0
    /\ ~cm.hasPassedStartLine
    /\ ~cm.stageComplete

\* C24: once the start line has been passed, no update overwrites the start
\* timestamp, also not with the car on the start line again, and while the
\* attempt is in progress the stage time is the clock minus that timestamp.
C24_StartOnce ==
    [][(op' = "update" /\ cm.hasPassedStartLine)
       => /\ cm'.startTime = cm.startTime
          /\ ~cm.stageComplete => cm'.stageTime = now' - cm.startTime]_vars

\* an update with the car on the start line, later than the crossing that
\* started the attempt
C24_Witness ==
    /\ op = "update"
    /\ lastPos = Vec2(100, 100)
    /\ cm.hasPassedStartLine
    /\ ~cm.stageComplete
    /\ cm.startTime < now
    /\ cm.stageTime = now - cm.startTime

\* C27: a complete stage has passed the start line and all the track's
\* checkpoints, and before the start line is passed the checkpoint index is 0.
C27_ProgressConsistent ==
    /\ cm.stageComplete
           => (cm.hasPassedStartLine /\ cm.currentCheckpoint = Len(track.checkpoints))
    /\ ~cm.hasPassedStartLine => cm.currentCheckpoint = 0

\* a stage with checkpoints, completed
C27_Witness ==
    /\ cm.stageComplete
    /\ Len(track.checkpoints) = 2
    /\ cm.currentCheckpoint = 2

-----------------------------------------------------------------------------
(* Game loop claims, continued *)

\* C25: when an unpaused gameLoop call has run its physics steps and
\* rendered, the accumulator is at least 0 and less than FIXED_TIMESTEP, so
\* that the interpolation factor accumulator / FIXED_TIMESTEP is in [0, 1).
C25_AccumulatorBelowStep ==
    (pc = "idle" /\ op = "render")
        => (0 <= game.accumulator /\ game.accumulator < FIXED_TIMESTEP)

\* a frame that ran two steps and rendered with three quarters of a step
\* left over
C25_Witness ==
    /\ pc = "idle"
    /\ op = "render"
    /\ hist.updates = 2
    /\ game.accumulator = FIXED_TIMESTEP - 1

-----------------------------------------------------------------------------
(* Ghost replay claims, continued *)

\* C26: an AICar whose cursor has reached the end of its trace is inactive,
\* and update calls leave all of its state as it is; only loadGhostData
\* brings it back.
C26_EndIsFinal ==
    [][(/\ Len(ghostCar.ghostData) > 0
        /\ ghostCar.currentFrame >= Len(ghostCar.ghostData) * FRAME_QUARTERS)
       => /\ ~ghostCar.isActive
          /\ op' = "ghostUpdate" => ghostCar' = ghostCar]_vars

\* an update called on a ghost that had already reached the end of its trace
C26_Witness ==
    /\ op = "ghostUpdate"
    /\ Len(ghostCar.ghostData) > 0
    /\ replay.last.cursor >= Len(ghostCar.ghostData) * FRAME_QUARTERS
    /\ ~ghostCar.isActive

-----------------------------------------------------------------------------
(* Session claims *)

\* C28: every physics step in which an attempt becomes complete runs the
\* completion handling of Game.update (best-time save, ghost save,
\* leaderboard check), which marks the completion as shown: the mark was not
\* set before the step and is set after it.
C28_HandledPerCompletion ==
    [][(pc = "update" /\ op' = "update" /\ ~cm.stageComplete /\ cm'.stageComplete)
       => (~game.stageCompletedShown /\ game'.stageCompletedShown)]_vars

\* C29: a frame that passes while the session is paused adds nothing to the
\* elapsed time of an attempt in progress, the clock minus the start
\* timestamp, which is what the next update reports as stageTime.
C29_PausedTimeNotCounted ==
    [][(/\ pc = "idle"
        /\ game.isPaused
        /\ op' = "frame"
        /\ cm.hasPassedStartLine
        /\ ~cm.stageComplete)
       => now' - cm'.startTime = now - cm.startTime]_vars

\* C30: a call of Game.start on a game that is already running (restart or
\* change of track from the pause menu) leaves at most one gameLoop callback
\* scheduled.
C30_OneLoopChain ==
    [][(op' = "start" /\ game.isRunning) => hist'.scheduled <= 1]_vars

====
